---- MODULE Spec2Model ----
(***************************************************************************)
(* A model of sqlite-simple-tokenizer: the FTS5 host adapter               *)
(* (src/src/tokenizer/mod.rs), the phrase-segmentation variant             *)
(* (src/src/tokenizer/jieba_tokenizer.rs) and the normalization helpers    *)
(* (src/src/tokenizer/utils.rs).                                           *)
(*                                                                         *)
(* Bytes are integers 0..255, a character is its Unicode code point, a     *)
(* string (Rust &str / String) is a sequence of code points and its byte   *)
(* length is the length of its UTF-8 encoding.                             *)
(***************************************************************************)
EXTENDS Integers, Sequences, FiniteSets, TLC

VARIABLES
    reg,     \* outcome of register_tokenizer: "none" before the call
    global,  \* the global context: who owns it, how often it was dropped
    inst,    \* handle -> the boxed tokenizer instance the host holds
    call,    \* the entry-point call the host has just made (ep = "none": idle)
    prev     \* the x_tokenize call before `call`, for two-call comparisons

vars == <<reg, global, inst, call, prev>>

(***************************************************************************)
(* Bounds of the model.                                                    *)
(***************************************************************************)
\* longest data buffer of an x_tokenize call in SpecTok
MaxLen == 3
\* longest data buffer of an x_tokenize call in the lifecycle Spec
MaxHostLen == 1
\* longest argument list of an x_create call
MaxArgs == 2
\* number of instance handles the host may hold at once
MaxInstances == 2

(***************************************************************************)
(* Program constants (rusqlite::ffi, imported at mod.rs:9-14).             *)
(***************************************************************************)
SQLITE_OK == 0
SQLITE_ERROR == 1
FTS5_TOKENIZE_QUERY == 1
FTS5_TOKENIZE_PREFIX == 2
FTS5_TOKENIZE_DOCUMENT == 4
FTS5_TOKENIZE_AUX == 8
FTS5_TOKEN_COLOCATED == 1
FTS5_API_VERSION == 3
\* a host result code other than success and generic failure (SQLITE_NOMEM)
SQLITE_NOMEM == 7
\* U+FFFD REPLACEMENT CHARACTER, what from_utf8_lossy puts for invalid bytes
REPLACEMENT == 65533

(***************************************************************************)
(* UTF-8.                                                                  *)
(***************************************************************************)
\* char::len_utf8
Utf8Len(cp) ==
    IF cp < 128 THEN 1 ELSE IF cp < 2048 THEN 2 ELSE IF cp < 65536 THEN 3 ELSE 4

\* char::encode_utf8
EncodeChar(cp) ==
    IF cp < 128 THEN <<cp>>
    ELSE IF cp < 2048 THEN <<192 + (cp \div 64), 128 + (cp % 64)>>
    ELSE IF cp < 65536
         THEN <<224 + (cp \div 4096), 128 + ((cp \div 64) % 64), 128 + (cp % 64)>>
         ELSE <<240 + (cp \div 262144), 128 + ((cp \div 4096) % 64),
                128 + ((cp \div 64) % 64), 128 + (cp % 64)>>

RECURSIVE AsBytes(_)
\* str::as_bytes: the UTF-8 encoding of a string
AsBytes(s) ==
    IF s = <<>> THEN <<>> ELSE EncodeChar(Head(s)) \o AsBytes(Tail(s))

RECURSIVE StrLen(_)
\* str::len: the byte length of a string
StrLen(s) ==
    IF s = <<>> THEN 0 ELSE Utf8Len(Head(s)) + StrLen(Tail(s))

IsCont(b) == b >= 128 /\ b <= 191

\* the decoder's next chunk at position i of bytes: [n |-> bytes consumed,
\* cp |-> the character, or REPLACEMENT for a maximal invalid part]
Utf8Chunk(bytes, i) ==
    LET n == Len(bytes)
        b0 == bytes[i]
        has(k) == i + k <= n
        at(k) == bytes[i + k]
        bad(k) == [n |-> k, cp |-> REPLACEMENT]
    IN  IF b0 < 128 THEN [n |-> 1, cp |-> b0]
        ELSE IF b0 >= 194 /\ b0 <= 223 THEN
            IF has(1) /\ IsCont(at(1))
            THEN [n |-> 2, cp |-> (b0 - 192) * 64 + (at(1) - 128)]
            ELSE bad(1)
        ELSE IF b0 >= 224 /\ b0 <= 239 THEN
            LET lo == IF b0 = 224 THEN 160 ELSE 128
                hi == IF b0 = 237 THEN 159 ELSE 191
            IN  IF ~(has(1) /\ at(1) >= lo /\ at(1) <= hi) THEN bad(1)
                ELSE IF ~(has(2) /\ IsCont(at(2))) THEN bad(2)
                ELSE [n |-> 3, cp |-> (b0 - 224) * 4096 + (at(1) - 128) * 64
                                       + (at(2) - 128)]
        ELSE IF b0 >= 240 /\ b0 <= 244 THEN
            LET lo == IF b0 = 240 THEN 144 ELSE 128
                hi == IF b0 = 244 THEN 143 ELSE 191
            IN  IF ~(has(1) /\ at(1) >= lo /\ at(1) <= hi) THEN bad(1)
                ELSE IF ~(has(2) /\ IsCont(at(2))) THEN bad(2)
                ELSE IF ~(has(3) /\ IsCont(at(3))) THEN bad(3)
                ELSE [n |-> 4, cp |-> (b0 - 240) * 262144 + (at(1) - 128) * 4096
                                       + (at(2) - 128) * 64 + (at(3) - 128)]
        ELSE bad(1)

RECURSIVE LossyFrom(_, _)
LossyFrom(bytes, i) ==
    IF i > Len(bytes) THEN <<>>
    ELSE LET c == Utf8Chunk(bytes, i)
         IN  <<c.cp>> \o LossyFrom(bytes, i + c.n)

\* String::from_utf8_lossy: every maximal invalid part becomes one U+FFFD
from_utf8_lossy(bytes) == LossyFrom(bytes, 1)

\* whether the buffer is valid UTF-8 (from_utf8_lossy then borrows it unchanged)
IsValidUtf8(bytes) == AsBytes(from_utf8_lossy(bytes)) = bytes

(***************************************************************************)
(* Character classes and per-character mappings (Rust std `char`, and the  *)
(* unicode-normalization crate), exact for the characters the byte         *)
(* alphabet ByteAlphabet can spell.                                        *)
(***************************************************************************)
\* char::is_whitespace (Unicode White_Space)
is_whitespace(ch) ==
    \/ ch >= 9 /\ ch <= 13
    \/ ch \in {32, 133, 160, 5760, 8232, 8233, 8239, 8287, 12288}
    \/ ch >= 8192 /\ ch <= 8202

\* char::is_control (general category Cc)
is_control(ch) == ch <= 31 \/ (ch >= 127 /\ ch <= 159)

\* char::is_ascii_punctuation
is_ascii_punctuation(ch) ==
    \/ ch >= 33 /\ ch <= 47
    \/ ch >= 58 /\ ch <= 64
    \/ ch >= 91 /\ ch <= 96
    \/ ch >= 123 /\ ch <= 126

is_ascii(ch) == ch < 128

is_ascii_alphanumeric(ch) ==
    \/ ch >= 48 /\ ch <= 57
    \/ ch >= 65 /\ ch <= 90
    \/ ch >= 97 /\ ch <= 122

\* char::to_ascii_lowercase
to_ascii_lowercase(ch) == IF ch >= 65 /\ ch <= 90 THEN ch + 32 ELSE ch

\* char::to_lowercase of a non-ASCII character: Latin-1 capitals map to
\* their small letters, the other characters of the alphabet have none
to_lowercase(ch) ==
    IF ch >= 192 /\ ch <= 222 /\ ch # 215 THEN <<ch + 32>> ELSE <<ch>>

\* the NFKC form of one character: U+00AA and U+00BA (feminine / masculine
\* ordinal indicator) and U+00A0 have compatibility mappings, the other
\* characters of the alphabet are their own NFKC form
NfkcChar(ch) ==
    IF ch = 170 THEN <<97>>
    ELSE IF ch = 186 THEN <<111>>
    ELSE IF ch = 160 THEN <<32>>
    ELSE <<ch>>

RECURSIVE nfkc(_)
\* UnicodeNormalization::nfkc over a word.  A word of JiebaCut is a run of
\* ASCII letters and digits or one single character, so no composition of a
\* base character with a following mark takes place inside a word.
nfkc(word) ==
    IF word = <<>> THEN <<>> ELSE NfkcChar(Head(word)) \o nfkc(Tail(word))

\* utils.rs is_diacritic
is_diacritic(ch) == ch >= 768 /\ ch <= 879

\* utils.rs is_space_or_ascii_punctuation_str
is_space_or_ascii_punctuation_str(word) ==
    \A i \in 1..Len(word) :
        is_whitespace(word[i]) \/ is_control(word[i]) \/ is_ascii_punctuation(word[i])

RECURSIVE LowerFold(_)
\* the loop body of make_lowercase over the NFKC characters: the buffer
LowerFold(chars) ==
    IF chars = <<>> THEN <<>>
    ELSE LET ch == Head(chars)
         IN  IF is_diacritic(ch) THEN LowerFold(Tail(chars))
             ELSE IF is_ascii(ch)
                  THEN <<to_ascii_lowercase(ch)>> \o LowerFold(Tail(chars))
                  ELSE to_lowercase(ch) \o LowerFold(Tail(chars))

\* utils.rs make_lowercase: [buf |-> the normalized word, need_stem |-> ...]
make_lowercase(word) ==
    LET chars == nfkc(word)
        buf == LowerFold(chars)
        allAscii == \A i \in 1..Len(chars) :
                        is_diacritic(chars[i]) \/ is_ascii(chars[i])
    IN  [buf |-> buf, need_stem |-> allAscii /\ StrLen(buf) > 1]

IsVowel(ch) == ch \in {97, 101, 105, 111, 117, 121}

\* EN_STEMMER.stem (the Snowball English stemmer, an external library) on
\* the lowercase ASCII words of the alphabet: words of one or two letters
\* are left alone, a final "ss" is left alone, a final "s" is removed when a
\* vowel stands before the letter preceding it (step 1a)
Stem(w) ==
    LET n == Len(w)
    IN  IF n <= 2 THEN w
        ELSE IF w[n] = 115 /\ w[n - 1] # 115 /\ w[n - 1] # 117
                /\ \E i \in 1..(n - 2) : IsVowel(w[i])
             THEN SubSeq(w, 1, n - 1)
             ELSE w

\* crate::STOPWORD, the fixed stopword set: "a" and "as"
STOPWORD == {<<97>>, <<97, 115>>}

RECURSIVE CutFrom(_, _, _)
CutFrom(text, i, cur) ==
    IF i > Len(text) THEN (IF cur = <<>> THEN <<>> ELSE <<cur>>)
    ELSE IF is_ascii_alphanumeric(text[i])
         THEN CutFrom(text, i + 1, Append(cur, text[i]))
         ELSE (IF cur = <<>> THEN <<>> ELSE <<cur>>)
              \o <<(<<text[i]>>)>> \o CutFrom(text, i + 1, <<>>)

\* JIEBA.cut(text, true) (jieba-rs, an external library) on text without Han
\* characters: a maximal run of ASCII letters and digits is one word, every
\* other character is a word of its own; the words concatenate to the text
JiebaCut(text) == CutFrom(text, 1, <<>>)

(***************************************************************************)
(* The host adapter: reason flags, the wrapped push-token callback.        *)
(***************************************************************************)
\* TryFromFlag with the unrecognized values defaulted to Document
TryFromFlagDefaulting(value) ==
    IF value = FTS5_TOKENIZE_QUERY THEN "Query"
    ELSE IF value = FTS5_TOKENIZE_QUERY + FTS5_TOKENIZE_PREFIX THEN "QueryPrefix"
    ELSE IF value = FTS5_TOKENIZE_AUX THEN "Aux"
    ELSE "Document"

\* impl TryFrom<c_int> for TokenizeReason: the reason, or "Err" for
\* IntoTokenizeReasonError::UnrecognizedValue
TryFromFlag(value) ==
    IF value = FTS5_TOKENIZE_DOCUMENT THEN "Document"
    ELSE IF value = FTS5_TOKENIZE_QUERY THEN "Query"
    ELSE IF value = FTS5_TOKENIZE_QUERY + FTS5_TOKENIZE_PREFIX THEN "QueryPrefix"
    ELSE IF value = FTS5_TOKENIZE_AUX THEN "Aux"
    ELSE "Err"

\* the host's push-token callback xToken on its k-th call of one x_tokenize:
\* cb.failAt = 0 is a callback that accepts every token
HostPush(cb, k) == IF cb.failAt = k THEN cb.failCode ELSE SQLITE_OK

\* RangeValid checking the start of the range only
RangeValidStartOnly(start, end, len) == start <= len

\* the assertion of the wrapped callback on a token's range
RangeValid(start, end, len) == start <= len /\ end <= len

\* PushToken dropping the host callback's return code
PushTokenIgnoringStatus(token, start, end, colocated, forwarded, len, cb) ==
    IF Len(token) > 2147483647
    THEN [res |-> "panic", code |-> SQLITE_OK, msg |-> "Token is too long",
          forwarded |-> forwarded]
    ELSE IF ~(start <= len /\ end <= len)
    THEN [res |-> "panic", code |-> SQLITE_OK, msg |-> "Token range is invalid",
          forwarded |-> forwarded]
    ELSE [res |-> "Ok", code |-> SQLITE_OK, msg |-> "",
          forwarded |-> Append(forwarded,
                               [flags |-> IF colocated THEN FTS5_TOKEN_COLOCATED ELSE 0,
                                bytes |-> token, start |-> start, end |-> end])]

\* the push_token closure of x_tokenize, called with the tokens forwarded so
\* far: the outcome and the tokens the host callback has seen after it
PushToken(token, start, end, colocated, forwarded, len, cb) ==
    IF Len(token) > 2147483647
    THEN [res |-> "panic", code |-> SQLITE_OK, msg |-> "Token is too long",
          forwarded |-> forwarded]
    ELSE IF ~RangeValid(start, end, len)
    THEN [res |-> "panic", code |-> SQLITE_OK, msg |-> "Token range is invalid",
          forwarded |-> forwarded]
    ELSE LET flags == IF colocated THEN FTS5_TOKEN_COLOCATED ELSE 0
             seen == Append(forwarded, [flags |-> flags, bytes |-> token,
                                        start |-> start, end |-> end])
             rc == HostPush(cb, Len(seen))
         IN  IF rc = SQLITE_OK
             THEN [res |-> "Ok", code |-> SQLITE_OK, msg |-> "", forwarded |-> seen]
             ELSE [res |-> "SqliteFailure", code |-> rc, msg |-> "",
                   forwarded |-> seen]

(***************************************************************************)
(* The phrase-segmentation variant, JiebaTokenizer.                        *)
(***************************************************************************)
\* impl Default for JiebaTokenizer
JiebaDefault == [live |-> TRUE, enable_stopword |-> TRUE]

\* JiebaTokenizer::disable_stopword
disable_stopword(self) == [self EXCEPT !.enable_stopword = FALSE]

RECURSIVE JiebaNewLoop(_, _)
JiebaNewLoop(tokenizer, args) ==
    IF args = <<>> THEN tokenizer
    ELSE JiebaNewLoop(IF Head(args) = "disable_stopword"
                      THEN disable_stopword(tokenizer) ELSE tokenizer,
                      Tail(args))

\* JiebaNew looking at its first argument only
JiebaNewFirstArg(args) ==
    [res |-> "Ok",
     v |-> IF args # <<>> /\ Head(args) = "disable_stopword"
           THEN disable_stopword(JiebaDefault) ELSE JiebaDefault]

\* JiebaTokenizer::new: always Ok(tokenizer)
JiebaNew(args) == [res |-> "Ok", v |-> JiebaNewLoop(JiebaDefault, args)]

\* IsStopped with the configuration flag inverted
IsStoppedInverted(self, buf) == ~self.enable_stopword /\ buf \in STOPWORD

\* the stopword test of the tokenize loop
IsStopped(self, buf) == self.enable_stopword /\ buf \in STOPWORD

\* the bytes the loop pushes for a normalized word
TokenBytes(lc) == AsBytes(IF lc.need_stem THEN Stem(lc.buf) ELSE lc.buf)

RECURSIVE TokenizeLoop(_, _, _, _, _, _)
\* the for loop of JiebaTokenizer::tokenize from word k on; acc carries the
\* running offset `index`, the ranges of the words visited, the tokens
\* handed to push_token and the tokens the host callback has seen
TokenizeLoop(self, words, k, acc, len, cb) ==
    IF k > Len(words) THEN [acc EXCEPT !.res = "Ok"]
    ELSE
      LET word == words[k]
          start == acc.index
          end == acc.index + StrLen(word)
          lc == make_lowercase(word)
          adv == [acc EXCEPT !.index = end,
                             !.spans = Append(@, [start |-> start, end |-> end])]
      IN  IF is_space_or_ascii_punctuation_str(word)
          THEN TokenizeLoop(self, words, k + 1, adv, len, cb)
          ELSE IF IsStopped(self, lc.buf)
          THEN TokenizeLoop(self, words, k + 1,
                            [adv EXCEPT !.stopped = @ + 1], len, cb)
          ELSE
            LET token == TokenBytes(lc)
                p == PushToken(token, start, end, FALSE, adv.forwarded, len, cb)
                after == [adv EXCEPT
                            !.pushed = Append(@, [bytes |-> token, start |-> start,
                                                  end |-> end, colocated |-> FALSE]),
                            !.forwarded = p.forwarded]
            IN  IF p.res = "Ok"
                THEN TokenizeLoop(self, words, k + 1, after, len, cb)
                ELSE [after EXCEPT !.res = p.res, !.code = p.code, !.msg = p.msg]

\* JiebaTokenize filtering stopwords for documents only
JiebaTokenizeByReason(self, reason, text, len, cb) ==
    [TokenizeLoop([self EXCEPT !.enable_stopword = @ /\ reason = "Document"],
                  JiebaCut(from_utf8_lossy(text)), 1,
                  [res |-> "running", code |-> SQLITE_OK, msg |-> "", self |-> self,
                   index |-> 0, spans |-> <<>>, stopped |-> 0,
                   pushed |-> <<>>, forwarded |-> <<>>],
                  len, cb)
     EXCEPT !.self = self]

\* JiebaTokenizer::tokenize(&mut self, _reason, text, push_token), with
\* push_token the closure of an x_tokenize call on a buffer of len bytes
JiebaTokenize(self, reason, text, len, cb) ==
    TokenizeLoop(self, JiebaCut(from_utf8_lossy(text)), 1,
                 [res |-> "running", code |-> SQLITE_OK, msg |-> "", self |-> self,
                  index |-> 0, spans |-> <<>>, stopped |-> 0,
                  pushed |-> <<>>, forwarded |-> <<>>],
                 len, cb)

(***************************************************************************)
(* Inputs the host may give.                                               *)
(***************************************************************************)
SeqsUpTo(S, n) == UNION {[1..k -> S] : k \in 0..n}

\* bytes of the data buffers: ' ', 'A', 's', and the bytes 0x81 0xAA 0xC2
\* 0xC3 0xCC, which spell U+0081 (control), U+00AA, U+00C1, U+00EA, U+0301,
\* U+032A (combining marks) and, alone or misplaced, invalid UTF-8
ByteAlphabet == {32, 65, 115, 129, 170, 194, 195, 204}

\* reason flags, recognized or not
HostFlags == (-1..9) \cup {12}

NoCallback == [present |-> FALSE, failAt |-> 0, failCode |-> SQLITE_OK]
AcceptAll == [present |-> TRUE, failAt |-> 0, failCode |-> SQLITE_OK]
FailAt(k) == [present |-> TRUE, failAt |-> k, failCode |-> SQLITE_NOMEM]

\* the push-token callbacks of the host: none, one that accepts every token,
\* one that refuses its first or its second token
HostCallbacks == {NoCallback, AcceptAll, FailAt(1), FailAt(2)}

\* constructor argument words
ArgWords == {"disable_stopword", "disable_pinyin", "Disable_Stopword"}

\* what T::new does: "new" is JiebaTokenizer::new; the others stand for a
\* variant whose constructor returns a host error, another error, or panics
CtorOutcomes == {"new", "SqliteFailure", "Err", "panic"}

\* what T::tokenize does: "jieba" is JiebaTokenizer::tokenize; "Err" stands
\* for a variant whose tokenize returns an error that is no host error
TokenizeVariants == {"jieba", "Err"}

\* how a panic that is not caught leaves an extern "C" function: the
\* process aborts, or the unwind enters the host's frames
Escapes == {"abort", "unwind"}

Handles == 1..MaxInstances
NoInst == [live |-> FALSE]
Idle == [ep |-> "none"]
Live(h) == inst[h].live

(***************************************************************************)
(* The entry points.                                                       *)
(***************************************************************************)
\* XCreateStatus without the arm that forwards the host's code
XCreateStatusGeneric(res, code) ==
    IF res = "Ok" THEN SQLITE_OK ELSE SQLITE_ERROR

\* the match on the constructor's result in x_create
XCreateStatus(res, code) ==
    IF res = "Ok" THEN SQLITE_OK
    ELSE IF res = "SqliteFailure" THEN code
    ELSE SQLITE_ERROR

\* the match on tokenize's result in x_tokenize
XTokenizeStatus(res, code) ==
    IF res = "Ok" THEN SQLITE_OK
    ELSE IF res = "SqliteFailure" THEN code
    ELSE SQLITE_ERROR

\* T::new under catch_unwind
VariantNew(ctor, code, args) ==
    IF ctor = "new" THEN JiebaNew(args) @@ [code |-> SQLITE_OK]
    ELSE [res |-> ctor, code |-> code]

\* x_create::<T>(global, args, nargs, out_tokenizer) storing at handle h
XCreateResult(h, args, ctor, code) ==
    LET r == VariantNew(ctor, code, args)
    IN  [ep |-> "x_create", exit |-> "return",
         rc |-> XCreateStatus(r.res, r.code),
         panic |-> IF r.res = "panic" THEN "new panic" ELSE "none",
         args |-> args, ctor |-> ctor, res |-> r.res, code |-> r.code,
         stored |-> r.res = "Ok",
         out |-> IF r.res = "Ok" THEN h ELSE 0,
         v |-> IF r.res = "Ok" THEN r.v ELSE NoInst]

\* T::tokenize under catch_unwind
VariantTokenize(variant, self, reason, data, cb) ==
    IF variant = "jieba" THEN JiebaTokenize(self, reason, data, Len(data), cb)
    ELSE [res |-> "Err", code |-> SQLITE_OK, msg |-> "", self |-> self,
          index |-> 0, spans |-> <<>>, stopped |-> 0,
          pushed |-> <<>>, forwarded |-> <<>>]

\* x_tokenize::<T>(this, ctx, flag, data, data_len, _, _, push_token)
XTokenizeResult(self, h, flag, data, cb, variant, esc) ==
    LET reason == TryFromFlag(flag)
        in == [ep |-> "x_tokenize", h |-> h, flag |-> flag, data |-> data,
               cb |-> cb, variant |-> variant, reason |-> reason,
               enable_stopword |-> self.enable_stopword]
    IN  IF reason = "Err"
        THEN in @@ [exit |-> "return", rc |-> SQLITE_ERROR, panic |-> "none",
                    invoked |-> FALSE, self |-> self, forwarded |-> <<>>]
        ELSE IF ~cb.present
        THEN in @@ [exit |-> esc, panic |-> "No provide push token function",
                    invoked |-> FALSE, self |-> self, forwarded |-> <<>>]
        ELSE LET run == VariantTokenize(variant, self, reason, data, cb)
             IN  in @@ [exit |-> "return",
                        rc |-> XTokenizeStatus(run.res, run.code),
                        panic |-> IF run.res = "panic" THEN run.msg ELSE "none",
                        invoked |-> TRUE, self |-> run.self,
                        forwarded |-> run.forwarded, run |-> run]

\* the lowest free handle: where Box::into_raw puts the next instance
FreeHandle == CHOOSE h \in Handles : ~Live(h) /\ \A g \in Handles : g < h => Live(g)

\* the host may call into the function table: it holds the registration
\* and its previous call has returned
HostReady == reg = "Ok" /\ global.owner = "host" /\ call.ep = "none"

\* x_create with its effect on the host's handles
CreateStep(args, ctor, code) ==
    LET r == XCreateResult(FreeHandle, args, ctor, code)
    IN  /\ call' = r
        /\ inst' = IF r.stored THEN [inst EXCEPT ![r.out] = r.v] ELSE inst

\* x_tokenize with its effect on the instance
TokenizeStep(h, flag, data, cb, variant, esc) ==
    LET r == XTokenizeResult(inst[h], h, flag, data, cb, variant, esc)
    IN  /\ call' = r
        /\ inst' = [inst EXCEPT ![h] = r.self]

\* the host calls xCreate
XCreate ==
    /\ HostReady
    /\ \E h \in Handles : ~Live(h)
    /\ \E args \in SeqsUpTo(ArgWords, MaxArgs), ctor \in CtorOutcomes,
          code \in {SQLITE_NOMEM} : CreateStep(args, ctor, code)
    /\ UNCHANGED <<reg, global, prev>>

\* the host calls xTokenize on a live instance
XTokenize ==
    /\ HostReady
    /\ \E h \in {g \in Handles : Live(g)}, flag \in HostFlags,
          data \in SeqsUpTo(ByteAlphabet, MaxHostLen), cb \in HostCallbacks,
          variant \in TokenizeVariants, esc \in Escapes :
            TokenizeStep(h, flag, data, cb, variant, esc)
    /\ UNCHANGED <<reg, global, prev>>

\* the host calls xDelete on a live instance; dropPanics: T's drop panics
XDelete ==
    /\ HostReady
    /\ \E h \in {g \in Handles : Live(g)}, dropPanics \in BOOLEAN :
        /\ inst' = [inst EXCEPT ![h] = NoInst]
        /\ call' = [ep |-> "x_delete", exit |-> "return", h |-> h,
                    panic |-> IF dropPanics THEN "drop panic" ELSE "none"]
    /\ UNCHANGED <<reg, global, prev>>

\* the host calls xDestroy at teardown, after it deleted every instance;
\* dropPanics: T::Global's drop panics
XDestroy ==
    /\ HostReady
    /\ \A h \in Handles : ~Live(h)
    /\ global' = [owner |-> "none", drops |-> global.drops + 1]
    /\ \E dropPanics \in BOOLEAN :
        call' = [ep |-> "x_destroy", exit |-> "return",
                 panic |-> IF dropPanics THEN "drop panic" ELSE "none"]
    /\ UNCHANGED <<reg, inst, prev>>

\* the host takes the returned status and is ready for its next call
HostReturn ==
    /\ call.ep # "none"
    /\ call.exit = "return"
    /\ call' = Idle
    /\ UNCHANGED <<reg, global, inst, prev>>

(***************************************************************************)
(* Registration.                                                           *)
(***************************************************************************)
\* get_fts5_api
get_fts5_api(env) ==
    IF ~env.prepare_ok THEN "SelectFts5Failed"
    ELSE IF env.api_null THEN "Fts5ApiNul"
    ELSE "Ok"

\* register_tokenizer::<T>(db, global_data): [res, global].  An owned
\* global_data is dropped when the function returns; once Box::into_raw has
\* made it a raw pointer only the host's xDestroy call drops it, and the
\* host keeps the pointer only when xCreateTokenizer_v2 succeeds.
register_tokenizer(env, g) ==
    IF get_fts5_api(env) # "Ok"
    THEN [res |-> get_fts5_api(env),
          global |-> [owner |-> "none", drops |-> g.drops + 1]]
    ELSE IF env.iVersion < FTS5_API_VERSION
    THEN [res |-> "Fts5ApiVersionTooLow", global |-> [g EXCEPT !.owner = "raw"]]
    ELSE IF ~env.has_v2
    THEN [res |-> "Fts5xCreateTokenizerV2Nul", global |-> [g EXCEPT !.owner = "raw"]]
    ELSE IF env.install_rc # SQLITE_OK
    THEN [res |-> "Fts5xCreateTokenizerFailed", global |-> [g EXCEPT !.owner = "raw"]]
    ELSE [res |-> "Ok", global |-> [g EXCEPT !.owner = "host"]]

\* what the connection answers: the fts5() lookup, the api version, the
\* installer's presence and its result
HostEnvs ==
    [prepare_ok : BOOLEAN, api_null : BOOLEAN, iVersion : 2..4,
     has_v2 : BOOLEAN, install_rc : {SQLITE_OK, SQLITE_ERROR, SQLITE_NOMEM}]

\* the application registers the tokenizer, once
Register ==
    /\ reg = "none"
    /\ \E env \in HostEnvs :
        LET r == register_tokenizer(env, global)
        IN  reg' = r.res /\ global' = r.global
    /\ UNCHANGED <<inst, call, prev>>

(***************************************************************************)
(* Spec: the life of one registration.                                     *)
(***************************************************************************)
Init ==
    /\ reg = "none"
    /\ global = [owner |-> "caller", drops |-> 0]
    /\ inst = [h \in Handles |-> NoInst]
    /\ call = Idle
    /\ prev = Idle

Next ==
    \/ Register
    \/ XCreate
    \/ XTokenize
    \/ XDelete
    \/ XDestroy
    \/ HostReturn

Spec == Init /\ [][Next]_vars

(***************************************************************************)
(* SpecTok: x_tokenize over every data buffer of up to MaxLen bytes, on an *)
(* instance with stopword filtering and on one without, once and then once *)
(* more on the same buffer with the same host callback.                    *)
(***************************************************************************)
\* the recognized flags the calls of SpecTok use
TokFlags == {FTS5_TOKENIZE_DOCUMENT, FTS5_TOKENIZE_QUERY}

\* the recognized flags of the second call of SpecTok: with TokFlags the two
\* calls cover the four reasons
TokAgainFlags ==
    {FTS5_TOKENIZE_DOCUMENT, FTS5_TOKENIZE_QUERY + FTS5_TOKENIZE_PREFIX,
     FTS5_TOKENIZE_AUX}

\* the host callbacks of SpecTok
TokCallbacks == {AcceptAll, FailAt(1), FailAt(2)}

\* after registration and x_create with <<>> and with <<"disable_stopword">>
InitTok ==
    /\ reg = "Ok"
    /\ global = [owner |-> "host", drops |-> 0]
    /\ inst = [h \in Handles |->
                 IF h = 1 THEN JiebaNew(<<>>).v
                 ELSE IF h = 2 THEN JiebaNew(<<"disable_stopword">>).v
                 ELSE NoInst]
    /\ call = Idle
    /\ prev = Idle

\* the host's first xTokenize call
TokenizeOnce ==
    /\ HostReady
    /\ prev.ep = "none"
    /\ \E h \in {g \in Handles : Live(g)}, flag \in TokFlags,
          data \in SeqsUpTo(ByteAlphabet, MaxLen), cb \in TokCallbacks :
            TokenizeStep(h, flag, data, cb, "jieba", "abort")
    /\ UNCHANGED <<reg, global, prev>>

\* the host's second xTokenize call, on the same buffer with the same callback
TokenizeAgain ==
    /\ call.ep = "x_tokenize"
    /\ call.exit = "return"
    /\ prev.ep = "none"
    /\ prev' = call
    /\ \E h \in {g \in Handles : Live(g)}, flag \in TokAgainFlags :
            TokenizeStep(h, flag, call.data, call.cb, "jieba", "abort")
    /\ UNCHANGED <<reg, global>>

NextTok ==
    \/ TokenizeOnce
    \/ TokenizeAgain

SpecTok == InitTok /\ [][NextTok]_vars

(***************************************************************************)
(* Properties.                                                             *)
(***************************************************************************)
EntryPoints == {"x_create", "x_tokenize", "x_delete", "x_destroy"}
Recognized ==
    {FTS5_TOKENIZE_DOCUMENT, FTS5_TOKENIZE_QUERY,
     FTS5_TOKENIZE_QUERY + FTS5_TOKENIZE_PREFIX, FTS5_TOKENIZE_AUX}

\* an x_tokenize call that reached the variant's tokenize
Tokenized(c) == c.ep = "x_tokenize" /\ c.invoked

\* C1: a panic raised while an entry point runs is caught inside it: the
\* entry point returns, x_create and x_tokenize with SQLITE_ERROR, and the
\* panic never leaves as an unwind (or an abort)
C1_FaultContainment ==
    (call.ep \in EntryPoints /\ call.panic # "none") =>
        /\ call.exit = "return"
        /\ call.ep \in {"x_create", "x_tokenize"} => call.rc = SQLITE_ERROR

\* C2: the flag decodes to Document, Query, Query with prefix or Aux for the
\* four defined values; for every other value x_tokenize returns SQLITE_ERROR
\* without invoking the variant and without forwarding a token
C2_ReasonDecoding ==
    call.ep = "x_tokenize" =>
        /\ call.flag = FTS5_TOKENIZE_DOCUMENT => call.reason = "Document"
        /\ call.flag = FTS5_TOKENIZE_QUERY => call.reason = "Query"
        /\ call.flag = FTS5_TOKENIZE_QUERY + FTS5_TOKENIZE_PREFIX
              => call.reason = "QueryPrefix"
        /\ call.flag = FTS5_TOKENIZE_AUX => call.reason = "Aux"
        /\ call.flag \notin Recognized =>
              /\ call.reason = "Err"
              /\ call.exit = "return"
              /\ call.rc = SQLITE_ERROR
              /\ ~call.invoked
              /\ call.forwarded = <<>>

\* an unrecognized flag (Document and Aux bits together) was rejected
C2_Witness ==
    /\ call.ep = "x_tokenize"
    /\ call.flag = FTS5_TOKENIZE_DOCUMENT + FTS5_TOKENIZE_AUX
    /\ call.cb = AcceptAll
    /\ call.data # <<>>
    /\ call.rc = SQLITE_ERROR

\* C3: every token that reaches the host's push-token callback has
\* 0 <= start <= end <= data_len
C3_ForwardedInRange ==
    call.ep = "x_tokenize" =>
        \A i \in 1..Len(call.forwarded) :
            /\ 0 <= call.forwarded[i].start
            /\ call.forwarded[i].start <= call.forwarded[i].end
            /\ call.forwarded[i].end <= Len(call.data)

\* a token was forwarded and then a token with a range past the buffer was
\* stopped by the assertion
C3_Witness ==
    /\ Tokenized(call)
    /\ Len(call.forwarded) >= 1
    /\ call.panic = "Token range is invalid"
    /\ Len(call.run.pushed) > Len(call.forwarded)

\* C4: the spans are visited in order, each starting where the previous one
\* ended, and after the last span the running offset equals the byte length
\* of the input buffer, for every input including invalid UTF-8
C4_SegmentationTotal ==
    (Tokenized(call) /\ call.variant = "jieba" /\ call.run.res = "Ok") =>
        /\ call.run.index = Len(call.data)
        /\ \A i \in 1..Len(call.run.spans) :
              /\ call.run.spans[i].start
                    = (IF i = 1 THEN 0 ELSE call.run.spans[i - 1].end)
              /\ call.run.spans[i].start <= call.run.spans[i].end

\* C5: with a recognized flag and a host callback that accepts every token,
\* x_tokenize returns SQLITE_OK for every input, invalid UTF-8 included
C5_NeverHardFails ==
    (call.ep = "x_tokenize" /\ call.variant = "jieba" /\ call.reason # "Err"
        /\ call.cb = AcceptAll) =>
        /\ call.exit = "return"
        /\ call.rc = SQLITE_OK

\* C6: x_create and x_tokenize return SQLITE_OK iff the variant returned Ok,
\* the host error's own code for a SqliteFailure, SQLITE_ERROR for any other
\* error or a panic; x_create stores a handle only on success
C6_StatusTranslation ==
    /\ call.ep = "x_create" =>
        /\ call.rc = SQLITE_OK <=> call.res = "Ok"
        /\ call.res = "SqliteFailure" => call.rc = call.code
        /\ call.res \in {"Err", "panic"} => call.rc = SQLITE_ERROR
        /\ call.stored <=> call.res = "Ok"
        /\ call.stored => call.out \in Handles /\ Live(call.out)
        /\ ~call.stored => call.out = 0
    /\ Tokenized(call) =>
        /\ call.rc = SQLITE_OK <=> call.run.res = "Ok"
        /\ call.run.res = "SqliteFailure" =>
              call.rc = call.cb.failCode /\ call.rc = call.run.code
        /\ call.run.res \in {"Err", "panic"} => call.rc = SQLITE_ERROR

\* a constructor's host error came back as its own code
C6_Witness ==
    /\ call.ep = "x_create"
    /\ call.res = "SqliteFailure"
    /\ call.rc = SQLITE_NOMEM
    /\ ~call.stored

\* C7: x_tokenize called without a callback and with a recognized flag
\* returns a failure status, without invoking the variant and without
\* raising a fault
C7_MissingCallback ==
    (call.ep = "x_tokenize" /\ call.reason # "Err" /\ ~call.cb.present) =>
        /\ call.exit = "return"
        /\ call.panic = "none"
        /\ ~call.invoked
        /\ call.rc # SQLITE_OK

\* C8: the global context is destroyed exactly once on every outcome of
\* registration: after a failed registration it has been dropped once and
\* is not left alive without an owner; after a successful one the host owns
\* it until the single x_destroy call, made when no instance is left
C8_GlobalOwnership ==
    /\ global.drops <= 1
    /\ reg \notin {"none", "Ok"} => global.owner = "none" /\ global.drops = 1
    /\ reg = "Ok" =>
          \/ global.owner = "host" /\ global.drops = 0
          \/ global.owner = "none" /\ global.drops = 1
    /\ global.owner = "none" => \A h \in Handles : ~Live(h)

RECURSIVE IsSubseq(_, _)
\* a is b with some elements left out
IsSubseq(a, b) ==
    IF a = <<>> THEN TRUE
    ELSE IF b = <<>> THEN FALSE
    ELSE IF Head(a) = Head(b) THEN IsSubseq(Tail(a), Tail(b))
    ELSE IsSubseq(a, Tail(b))

\* the two calls of a behaviour of SpecTok were made with a callback that
\* accepts every token, e on the filtering instance, d on the other
FilterPair(e, d) ==
    /\ Tokenized(e) /\ Tokenized(d)
    /\ e.enable_stopword /\ ~d.enable_stopword
    /\ e.data = d.data
    /\ e.cb = AcceptAll /\ d.cb = AcceptAll

\* C9 as stated: the instance without filtering emits every token of the
\* filtering one, in the same order, and emits more
C9_StrictSuperset ==
    /\ FilterPair(prev, call) =>
          /\ IsSubseq(prev.forwarded, call.forwarded)
          /\ Len(call.forwarded) > Len(prev.forwarded)
    /\ FilterPair(call, prev) =>
          /\ IsSubseq(call.forwarded, prev.forwarded)
          /\ Len(prev.forwarded) > Len(call.forwarded)

\* C9 amended: the instance without filtering emits every token of the
\* filtering one, in the same order; it emits the same tokens when the
\* filtering instance dropped no stopword
C9_Superset ==
    /\ FilterPair(prev, call) =>
          /\ IsSubseq(prev.forwarded, call.forwarded)
          /\ prev.run.stopped = 0 => call.forwarded = prev.forwarded
    /\ FilterPair(call, prev) =>
          /\ IsSubseq(call.forwarded, prev.forwarded)
          /\ call.run.stopped = 0 => prev.forwarded = call.forwarded

\* the filtering instance dropped a stopword and emitted a token, the other
\* instance emitted more
C9_Witness ==
    /\ FilterPair(prev, call)
    /\ prev.run.stopped >= 1
    /\ Len(prev.forwarded) >= 1
    /\ Len(call.forwarded) > Len(prev.forwarded)

\* C10: JiebaTokenizer::new succeeds for every argument list, and the
\* instance has stopword filtering disabled iff some argument is exactly
\* "disable_stopword"
C10_ConstructorArgs ==
    (call.ep = "x_create" /\ call.ctor = "new") =>
        /\ call.res = "Ok"
        /\ call.rc = SQLITE_OK
        /\ call.stored
        /\ inst[call.out].enable_stopword
              <=> ~(\E i \in 1..Len(call.args) : call.args[i] = "disable_stopword")

\* the word stood second, behind an argument that is ignored
C10_Witness ==
    /\ call.ep = "x_create"
    /\ call.ctor = "new"
    /\ call.args = <<"disable_pinyin", "disable_stopword">>
    /\ ~inst[call.out].enable_stopword

\* C11: tokenize is stateless: it leaves the instance's configuration as it
\* was, its running offset starts at 0, and two calls on the same buffer by
\* instances of the same configuration emit the same tokens whatever their
\* reason flags and whichever call came first
C11_Stateless ==
    /\ Tokenized(call) =>
          /\ inst[call.h].enable_stopword = call.enable_stopword
          /\ call.self = inst[call.h]
          /\ call.run.spans # <<>> => call.run.spans[1].start = 0
    /\ (Tokenized(prev) /\ Tokenized(call)
          /\ prev.enable_stopword = call.enable_stopword
          /\ prev.data = call.data /\ prev.cb = call.cb) =>
          /\ call.run.pushed = prev.run.pushed
          /\ call.forwarded = prev.forwarded
          /\ call.run.index = prev.run.index
          /\ call.rc = prev.rc

\* the filtering instance was called for a document and then for a prefix
\* query on the same buffer, dropped a stopword and emitted a token
C11_Witness ==
    /\ Tokenized(prev) /\ Tokenized(call)
    /\ prev.h = call.h
    /\ call.enable_stopword
    /\ prev.flag = FTS5_TOKENIZE_DOCUMENT
    /\ call.flag = FTS5_TOKENIZE_QUERY + FTS5_TOKENIZE_PREFIX
    /\ call.cb = AcceptAll
    /\ call.run.stopped >= 1
    /\ Len(call.forwarded) >= 1

\* C12: when the host callback returns a non-success code for a token, no
\* later token of the call is forwarded and x_tokenize returns exactly that
\* code
C12_StopsAtRefusal ==
    (Tokenized(call) /\ call.variant = "jieba" /\ call.cb.failAt >= 1
        /\ Len(call.forwarded) >= call.cb.failAt) =>
        /\ Len(call.forwarded) = call.cb.failAt
        /\ call.run.pushed[Len(call.run.pushed)].bytes
              = call.forwarded[call.cb.failAt].bytes
        /\ call.exit = "return"
        /\ call.rc = call.cb.failCode
        /\ call.rc # SQLITE_OK

\* the callback refused the first of the two tokens of "s s": the loop
\* stopped behind the first word
C12_Witness ==
    /\ Tokenized(call)
    /\ call.data = <<115, 32, 115>>
    /\ call.cb = FailAt(1)
    /\ Len(call.forwarded) = 1
    /\ call.run.index = 1
    /\ call.rc = SQLITE_NOMEM

\* C13: every token the variant emits has at least one byte, also for a
\* span made only of combining diacritical marks
C13_TokensNonEmpty ==
    (Tokenized(call) /\ call.variant = "jieba") =>
        \A i \in 1..Len(call.run.pushed) : Len(call.run.pushed[i].bytes) >= 1

====
